---- MODULE Spec2Model ----
(***************************************************************************)
(* A model of the ray tracer: Vec3 algebra, Sphere::hit, the three         *)
(* materials' scatter, Camera::get_ray, ray_colour and the row loop of     *)
(* main.                                                                   *)
(*                                                                         *)
(* f64 values are modelled by exact rationals [n, d] in lowest terms with  *)
(* d > 0 (f64::INFINITY is [n |-> 1, d |-> 0]).  The inputs are drawn from *)
(* sets on which every square root the code takes is rational, so each     *)
(* operator computes exactly what the code computes, step by step.         *)
(***************************************************************************)
EXTENDS Integers, Sequences, FiniteSets, TLC

(***************************************************************************)
(* f64 arithmetic, exact.                                                  *)
(***************************************************************************)
Abs(i) == IF i < 0 THEN -i ELSE i

RECURSIVE Gcd(_, _)
Gcd(a, b) == IF b = 0 THEN a ELSE Gcd(b, a % b)

Q(n, d) ==
    LET g == Gcd(Abs(n), Abs(d))
        s == IF d < 0 THEN -1 ELSE 1
    IN  [n |-> (s * n) \div g, d |-> (s * d) \div g]

Zero == Q(0, 1)
One  == Q(1, 1)
Two  == Q(2, 1)
INFINITY == [n |-> 1, d |-> 0]

QAdd(a, b) == Q(a.n * b.d + b.n * a.d, a.d * b.d)
QNeg(a)    == [n |-> -a.n, d |-> a.d]
QSub(a, b) == QAdd(a, QNeg(b))
QMul(a, b) == Q(a.n * b.n, a.d * b.d)
QDiv(a, b) == Q(a.n * b.d, a.d * b.n)
QLt(a, b)  == a.n * b.d < b.n * a.d
QLe(a, b)  == a.n * b.d <= b.n * a.d
QGt(a, b)  == QLt(b, a)
QAbs(a)    == [n |-> Abs(a.n), d |-> a.d]
QMin(a, b) == IF QLt(b, a) THEN b ELSE a
QMax(a, b) == IF QLt(a, b) THEN b ELSE a

RECURSIVE QPowi(_, _)
QPowi(a, k) == IF k = 0 THEN One ELSE QMul(a, QPowi(a, k - 1))

\* The integer square root of n >= 0, by bisection on lo..hi.
RECURSIVE ISqrtIn(_, _, _)
ISqrtIn(n, lo, hi) ==
    IF lo >= hi THEN lo
    ELSE LET mid == (lo + hi + 1) \div 2
         IN  IF mid * mid <= n THEN ISqrtIn(n, mid, hi) ELSE ISqrtIn(n, lo, mid - 1)

ISqrt(n) == ISqrtIn(n, 0, IF n < 46340 THEN n ELSE 46340)
IsSquare(n) == n >= 0 /\ ISqrt(n) * ISqrt(n) = n

\* f64::sqrt is exact on the rationals whose square root is rational;
\* the inputs of the model are chosen among those (QSqrtExact).
QSqrtExact(a) == IsSquare(a.n) /\ IsSquare(a.d)
QSqrt(a) == Q(ISqrt(a.n), ISqrt(a.d))

(***************************************************************************)
(* vec3.rs                                                                 *)
(***************************************************************************)
V(x, y, z) == [x |-> x, y |-> y, z |-> z]
VI(x, y, z) == V(Q(x, 1), Q(y, 1), Q(z, 1))
from_scalar(v) == V(v, v, v)
default == from_scalar(Zero)

add(a, b)   == V(QAdd(a.x, b.x), QAdd(a.y, b.y), QAdd(a.z, b.z))
add_f64(a, s) == V(QAdd(a.x, s), QAdd(a.y, s), QAdd(a.z, s))
neg(a)      == V(QNeg(a.x), QNeg(a.y), QNeg(a.z))
sub(a, b)   == add(a, neg(b))
mul(a, b)   == V(QMul(a.x, b.x), QMul(a.y, b.y), QMul(a.z, b.z))
mul_f64(a, s) == V(QMul(a.x, s), QMul(a.y, s), QMul(a.z, s))
div_f64(a, s) == V(QDiv(a.x, s), QDiv(a.y, s), QDiv(a.z, s))

dot(a, b) == QAdd(QAdd(QMul(a.x, b.x), QMul(a.y, b.y)), QMul(a.z, b.z))
cross(a, b) ==
    V(QSub(QMul(a.y, b.z), QMul(a.z, b.y)),
      QSub(QMul(a.z, b.x), QMul(a.x, b.z)),
      QSub(QMul(a.x, b.y), QMul(a.y, b.x)))
length_squared(a) == dot(a, a)
length(a) == QSqrt(length_squared(a))
unit(a) == div_f64(a, length(a))
sqrt(a) == V(QSqrt(a.x), QSqrt(a.y), QSqrt(a.z))

\* f64::clamp, and the saturating cast `as u8` (truncation toward zero,
\* then 0 below 0 and 255 above 255).
clamp(c, min, max) == IF QLt(c, min) THEN min ELSE IF QGt(c, max) THEN max ELSE c
trunc(c) == IF c.n < 0 THEN -((-c.n) \div c.d) ELSE c.n \div c.d
as_u8(c) == IF trunc(c) < 0 THEN 0 ELSE IF trunc(c) > 255 THEN 255 ELSE trunc(c)

\* One channel of as_bytes: (c.clamp(0.0, 0.999) * 256.0) as u8.
quantize_255(c) == as_u8(QMul(clamp(c, Zero, Q(999, 1000)), Q(255, 1)))
quantize(c) == as_u8(QMul(clamp(c, Zero, Q(999, 1000)), Q(256, 1)))

as_bytes(a) == <<quantize(a.x), quantize(a.y), quantize(a.z)>>

\* |c| < eps with eps = 1e-8, i.e. |n| * 10^8 < d.  A denominator is below
\* 2^31, so the product is formed only for |n| <= 21 (no 32-bit overflow).
abs_lt_eps(c) == Abs(c.n) <= 21 /\ Abs(c.n) * 100000000 < c.d
near_zero(a) == abs_lt_eps(a.x) /\ abs_lt_eps(a.y) /\ abs_lt_eps(a.z)

reflect_across(a, normal) ==
    LET b_length == dot(a, normal)
    IN  sub(a, mul_f64(mul_f64(normal, Two), b_length))

refract_across(a, normal, etai_over_etat) ==
    LET cos_theta == QMin(dot(normal, neg(a)), One)
        r_out_perp == mul_f64(add(a, mul_f64(normal, cos_theta)), etai_over_etat)
        r_out_parallel ==
            mul_f64(normal, QNeg(QSqrt(QAbs(QSub(One, length_squared(r_out_perp))))))
    IN  add(r_out_perp, r_out_parallel)

(***************************************************************************)
(* Option<T>                                                               *)
(***************************************************************************)
None == [some |-> FALSE]
Some(x) == [some |-> TRUE, val |-> x]

(***************************************************************************)
(* ray.rs (not among the sources: Ray is an origin and a direction, and    *)
(* at(t) = origin + t * direction)                                         *)
(***************************************************************************)
Ray(origin, direction) == [origin |-> origin, direction |-> direction]
at(ray, t) == add(ray.origin, mul_f64(ray.direction, t))

(***************************************************************************)
(* material.rs: the three materials as one tagged record                   *)
(***************************************************************************)
Lambertian(albedo) ==
    [kind |-> "Lambertian", albedo |-> albedo, fuzziness |-> Zero,
     index_of_refraction |-> Zero]
Metal(albedo, fuzziness) ==
    [kind |-> "Metal", albedo |-> albedo, fuzziness |-> fuzziness,
     index_of_refraction |-> Zero]
Dielectric(index_of_refraction) ==
    [kind |-> "Dielectric", albedo |-> default, fuzziness |-> Zero,
     index_of_refraction |-> index_of_refraction]

(***************************************************************************)
(* hit.rs, geometry.rs                                                     *)
(***************************************************************************)
HitRecord(point, normal, t, hit_from_inside, material) ==
    [point |-> point, normal |-> normal, t |-> t,
     hit_from_inside |-> hit_from_inside, material |-> material]

Sphere(centre, radius, material) ==
    [centre |-> centre, radius |-> radius, material |-> material]

discriminant(s, ray) ==
    LET oc == sub(ray.origin, s.centre)
        a == length_squared(ray.direction)
        half_b == dot(ray.direction, oc)
        c == QSub(length_squared(oc), QMul(s.radius, s.radius))
    IN  QSub(QMul(half_b, half_b), QMul(a, c))

\* The interval test of Sphere::hit on a root: outside iff root < t_min or
\* root > t_max.
out_of_bounds_open(root, t_min, t_max) == QLe(root, t_min) \/ QLe(t_max, root)
out_of_bounds(root, t_min, t_max) == QLt(root, t_min) \/ QGt(root, t_max)

\* The orientation of the normal against the ray.
face_normal_ge(normal, direction) ==
    IF QLe(Zero, dot(normal, direction))
    THEN [normal |-> neg(normal), hit_from_inside |-> TRUE]
    ELSE [normal |-> normal, hit_from_inside |-> FALSE]
face_normal(normal, direction) ==
    IF QGt(dot(normal, direction), Zero)
    THEN [normal |-> neg(normal), hit_from_inside |-> TRUE]
    ELSE [normal |-> normal, hit_from_inside |-> FALSE]

hit_record_at(s, ray, root) ==
    LET point == at(ray, root)
        normal == div_f64(sub(point, s.centre), s.radius)
        f == face_normal(normal, ray.direction)
    IN  Some(HitRecord(point, f.normal, root, f.hit_from_inside, s.material))

hit(s, ray, t_min, t_max) ==
    LET oc == sub(ray.origin, s.centre)
        a == length_squared(ray.direction)
        half_b == dot(ray.direction, oc)
    IN  IF QLt(discriminant(s, ray), Zero) THEN None
        ELSE LET d == QSqrt(discriminant(s, ray))
                 root1 == QDiv(QSub(QNeg(half_b), d), a)
                 root2 == QDiv(QAdd(QNeg(half_b), d), a)
             IN  IF out_of_bounds(root1, t_min, t_max)
                 THEN IF out_of_bounds(root2, t_min, t_max)
                      THEN None
                      ELSE hit_record_at(s, ray, root2)
                 ELSE hit_record_at(s, ray, root1)

\* The rays and spheres on which hit takes no irrational square root and
\* divides by no zero.
HitExact(s, ray) ==
    /\ length_squared(ray.direction) # Zero
    /\ QLt(discriminant(s, ray), Zero) \/ QSqrtExact(discriminant(s, ray))

(***************************************************************************)
(* material.rs: scatter.  A draw is what the thread's generator yields in  *)
(* one scatter call: v, the point of random_in_unit_sphere(), and s, the   *)
(* uniform f64 of thread_rng().gen().                                      *)
(***************************************************************************)
Scattered(ray, attenuation) == Some([ray |-> ray, attenuation |-> attenuation])

Lambertian_scatter(m, ray, hr, draw) ==
    LET scatter_dir0 == add(hr.normal, unit(draw.v))
        scatter_dir == IF near_zero(scatter_dir0) THEN hr.normal ELSE scatter_dir0
    IN  Scattered(Ray(hr.point, scatter_dir), m.albedo)

\* Metal::scatter keeps the ray iff its direction has a positive dot
\* product with the normal.
proper_reflection_ge(direction, normal) == QLe(Zero, dot(direction, normal))
proper_reflection(direction, normal) == QGt(dot(direction, normal), Zero)

Metal_scatter(m, ray, hr, draw) ==
    LET reflected_dir == reflect_across(unit(ray.direction), hr.normal)
        scatter_r == Ray(hr.point, add(reflected_dir, mul_f64(draw.v, m.fuzziness)))
    IN  IF proper_reflection(scatter_r.direction, hr.normal)
        THEN Scattered(scatter_r, m.albedo)
        ELSE None

reflectance(cosine, ref_index) ==
    LET r0a == QDiv(QSub(One, ref_index), QAdd(One, ref_index))
        r0 == QMul(r0a, r0a)
    IN  QAdd(r0, QMul(QSub(One, r0), QPowi(QSub(One, cosine), 5)))

refraction_ratio(m, hr) ==
    IF hr.hit_from_inside
    THEN m.index_of_refraction
    ELSE QDiv(One, m.index_of_refraction)

cos_theta(ray, hr) == QMin(dot(hr.normal, neg(unit(ray.direction))), One)
sin_theta(ray, hr) == QSqrt(QSub(One, QMul(cos_theta(ray, hr), cos_theta(ray, hr))))

reflects(m, ray, hr, draw) ==
    LET cannot_refract == QGt(QMul(refraction_ratio(m, hr), sin_theta(ray, hr)), One)
    IN  \/ cannot_refract
        \/ QGt(reflectance(cos_theta(ray, hr), refraction_ratio(m, hr)), draw.s)

Dielectric_scatter(m, ray, hr, draw) ==
    LET unit_dir == unit(ray.direction)
        refracted_dir ==
            IF reflects(m, ray, hr, draw)
            THEN reflect_across(unit_dir, hr.normal)
            ELSE refract_across(unit_dir, hr.normal, refraction_ratio(m, hr))
    IN  Scattered(Ray(hr.point, refracted_dir), from_scalar(One))

\* hr.material.scatter(ray, &hr): dispatch on the material's type.
scatter(ray, hr, draw) ==
    CASE hr.material.kind = "Lambertian" -> Lambertian_scatter(hr.material, ray, hr, draw)
      [] hr.material.kind = "Metal"      -> Metal_scatter(hr.material, ray, hr, draw)
      [] hr.material.kind = "Dielectric" -> Dielectric_scatter(hr.material, ray, hr, draw)

\* The draws on which scatter takes no irrational square root and
\* normalises no zero vector.
ScatterExact(ray, hr, draw) ==
    CASE hr.material.kind = "Lambertian" ->
            /\ length_squared(draw.v) # Zero
            /\ QSqrtExact(length_squared(draw.v))
      [] hr.material.kind = "Metal" ->
            QSqrtExact(length_squared(ray.direction))
      [] hr.material.kind = "Dielectric" ->
            /\ QSqrtExact(length_squared(ray.direction))
            /\ QSqrtExact(QSub(One, QMul(cos_theta(ray, hr), cos_theta(ray, hr))))
            /\ \/ reflects(hr.material, ray, hr, draw)
               \/ LET perp == mul_f64(add(unit(ray.direction),
                                          mul_f64(hr.normal, cos_theta(ray, hr))),
                                      refraction_ratio(hr.material, hr))
                  IN  QSqrtExact(QAbs(QSub(One, length_squared(perp))))

(***************************************************************************)
(* main.rs: ray_colour                                                     *)
(***************************************************************************)
WHITE == from_scalar(One)
LIGHT_BLUE == V(Q(1, 2), Q(7, 10), One)
T_MIN == Q(1, 1000)

\* .filter_map(|h| h.hit(ray, 0.001, f64::INFINITY)): the hit records of the
\* surfaces that are hit, in scene order.
RECURSIVE filter_map_hit(_, _)
filter_map_hit(world, ray) ==
    IF world = <<>> THEN <<>>
    ELSE LET h == hit(Head(world), ray, T_MIN, INFINITY)
         IN  (IF h.some THEN <<h.val>> ELSE <<>>) \o filter_map_hit(Tail(world), ray)

\* Iterator::min_by folds from the left and replaces the running minimum x
\* by the next element y only when x compares Greater than y: of several
\* equally minimal elements the first is returned.
min_by_first(x, rest) == x
RECURSIVE min_by_fold(_, _)
min_by_fold(x, rest) ==
    IF rest = <<>> THEN x
    ELSE min_by_fold(IF QGt(x.t, Head(rest).t) THEN Head(rest) ELSE x, Tail(rest))

min_by_t(hits) ==
    IF hits = <<>> THEN None ELSE Some(min_by_fold(Head(hits), Tail(hits)))

closest_hit(world, ray) == min_by_t(filter_map_hit(world, ray))

\* The interpolation parameter of the background, from [-1, 1] to [0, 1].
gradient_t_unshifted(ray) == QMul(Q(1, 2), unit(ray.direction).y)
gradient_t(ray) == QMul(Q(1, 2), QAdd(unit(ray.direction).y, One))

background(ray) ==
    LET t == gradient_t(ray)
    IN  add(mul_f64(WHITE, QSub(One, t)), mul_f64(LIGHT_BLUE, t))

\* attenuation * ray_colour(&scattered, depth - 1, world)
attenuate_add(attenuation, colour) == add(attenuation, colour)
attenuate(attenuation, colour) == mul(attenuation, colour)

\* The depth of the recursive call.
next_depth_same(depth) == depth
next_depth(depth) == depth - 1

\* The rays on which ray_colour takes no irrational square root.
TraceExact(world, ray) ==
    /\ QSqrtExact(length_squared(ray.direction))
    /\ \A i \in 1..Len(world) : HitExact(world[i], ray)

\* ray_colour as the recursive function it is, the draws of the successive
\* scatter calls given as the sequence ds.  ok is FALSE where the draws run
\* out or an irrational square root would be taken.
Undefined == [ok |-> FALSE, colour |-> default]
Defined(colour) == [ok |-> TRUE, colour |-> colour]

RECURSIVE ray_colour(_, _, _, _)
ray_colour(ray, depth, world, ds) ==
    IF depth = 0 THEN Defined(default)
    ELSE IF ~TraceExact(world, ray) THEN Undefined
    ELSE LET h == closest_hit(world, ray)
         IN  IF ~h.some THEN Defined(background(ray))
             ELSE IF ds = <<>> \/ ~ScatterExact(ray, h.val, Head(ds)) THEN Undefined
             ELSE LET sc == scatter(ray, h.val, Head(ds))
                  IN  IF ~sc.some THEN Defined(default)
                      ELSE LET rest == ray_colour(sc.val.ray, next_depth(depth),
                                                  world, Tail(ds))
                           IN  IF rest.ok
                               THEN Defined(attenuate(sc.val.attenuation, rest.colour))
                               ELSE Undefined

(***************************************************************************)
(* camera.rs                                                               *)
(***************************************************************************)
\* (vertical_fov_degrees.to_radians() / 2.0).tan(), on the one field of
\* view of the model, 90 degrees, whose half-angle tangent is rational.
tan_half_fov(vertical_fov_degrees) == CASE vertical_fov_degrees = 90 -> One

Camera_new(look_from, look_at, up, vertical_fov_degrees, aspect_ratio, aperture, focus_distance) ==
    LET h == tan_half_fov(vertical_fov_degrees)
        viewport_height == QMul(Two, h)
        viewport_width == QMul(aspect_ratio, viewport_height)
        w == unit(sub(look_from, look_at))
        u == unit(cross(up, w))
        v == cross(w, u)
        origin == look_from
        horizontal == mul_f64(mul_f64(u, viewport_width), focus_distance)
        vertical == mul_f64(mul_f64(v, viewport_height), focus_distance)
        lower_left_corner ==
            sub(sub(sub(origin, div_f64(horizontal, Two)), div_f64(vertical, Two)),
                mul_f64(w, focus_distance))
        lens_radius == QDiv(aperture, Two)
    IN  [origin |-> origin, lower_left_corner |-> lower_left_corner,
         horizontal |-> horizontal, vertical |-> vertical,
         u |-> u, v |-> v, lens_radius |-> lens_radius]

\* let offset = self.u * rd.x + self.v + rd.y: the f64 rd.y is ADDED to
\* every component of u * rd.x + v (Add<f64> for Vec3).
lens_offset(cam, rd) == add_f64(add(mul_f64(cam.u, rd.x), cam.v), rd.y)

\* disk is the point random_in_unit_disk() returns.
get_ray(cam, s, t, disk) ==
    LET rd == mul_f64(disk, cam.lens_radius)
        offset == lens_offset(cam, rd)
    IN  Ray(add(cam.origin, offset),
            sub(sub(add(add(cam.lower_left_corner, mul_f64(cam.horizontal, s)),
                        mul_f64(cam.vertical, t)),
                    cam.origin),
                offset))

(***************************************************************************)
(* main.rs: the row loop of main                                           *)
(***************************************************************************)
\* One pixel: the sum of the samples' colours divided by their number,
\* gamma-corrected by sqrt, as bytes.
RECURSIVE sum_colours(_)
sum_colours(samples) ==
    IF samples = <<>> THEN default ELSE add(Head(samples), sum_colours(Tail(samples)))

average(samples) == div_f64(sum_colours(samples), Q(Len(samples), 1))

pixel(samples) == as_bytes(sqrt(average(samples)))

\* .into_par_iter().flat_map(..).collect::<Vec<u8>>(): rayon collects the
\* workers' results in the order of the column indices 0..image_width,
\* whatever order the workers finished in.
collect_as_finished(row) ==
    [k \in 1..Len(row.finished) |-> row.slots[row.finished[k]].val]
collect(row) ==
    [k \in 1..Len(row.finished) |-> row.slots[k - 1].val]

(***************************************************************************)
(* State.                                                                  *)
(*   sf_*  one Sphere::hit call and the scatter call on its hit record     *)
(*   world .. terminal   one top-level ray_colour call: the current ray    *)
(*         and depth, the attenuations of the pending multiplications      *)
(*         (the call stack), the returned colour; depth0, path, calls,     *)
(*         hit_tests, scatter_calls and terminal record what happened      *)
(*   cam_* one Camera::new and one get_ray call                            *)
(*   j .. out   the row loop of main                                       *)
(*   by_*  one as_bytes call                                               *)
(***************************************************************************)
VARIABLES sf_pc, sf_sphere, sf_ray, sf_t_min, sf_t_max, sf_hit, sf_draw, sf_scatter
VARIABLES world, ray, depth, stack, pc, result,
          depth0, path, calls, hit_tests, scatter_calls, terminal
VARIABLES cam_pc, camera, cam_args, cam_ray
VARIABLES rd_pc, j, slots, finished, out
VARIABLES by_pc, by_colour, by_bytes

sf_vars == <<sf_pc, sf_sphere, sf_ray, sf_t_min, sf_t_max, sf_hit, sf_draw, sf_scatter>>
tr_vars == <<world, ray, depth, stack, pc, result,
             depth0, path, calls, hit_tests, scatter_calls, terminal>>
cam_vars == <<cam_pc, camera, cam_args, cam_ray>>
rd_vars == <<rd_pc, j, slots, finished, out>>
by_vars == <<by_pc, by_colour, by_bytes>>

vars == <<sf_vars, tr_vars, cam_vars, rd_vars, by_vars>>

\* A component that a specification does not run stays idle.
SurfaceIdle ==
    /\ sf_pc = "idle"
    /\ sf_sphere = None /\ sf_ray = None /\ sf_t_min = Zero /\ sf_t_max = Zero
    /\ sf_hit = None /\ sf_draw = None /\ sf_scatter = None
TraceIdle ==
    /\ pc = "idle"
    /\ world = <<>> /\ ray = None /\ depth = 0 /\ stack = <<>> /\ result = None
    /\ depth0 = 0 /\ path = <<>> /\ calls = 0 /\ hit_tests = 0
    /\ scatter_calls = 0 /\ terminal = "none"
CameraIdle ==
    cam_pc = "idle" /\ camera = None /\ cam_args = None /\ cam_ray = None
RenderIdle ==
    rd_pc = "idle" /\ j = 0 /\ slots = <<>> /\ finished = <<>> /\ out = <<>>
BytesIdle ==
    by_pc = "idle" /\ by_colour = None /\ by_bytes = <<>>

NoDraw == [v |-> default, s |-> Zero]

(***************************************************************************)
(* The inputs of the model.                                                *)
(***************************************************************************)
GREY == from_scalar(Q(1, 2))
GOLD == V(Q(7, 10), Q(6, 10), Q(5, 10))

Materials ==
    { Lambertian(GREY), Metal(GOLD, Zero), Metal(GOLD, One),
      Dielectric(Q(3, 2)), Dielectric(Q(4, 3)) }

Geometries ==
    { <<VI(0, 0, 0), Q(1, 1)>>, <<VI(0, 0, 0), Q(5, 1)>>, <<VI(0, 3, 0), Q(2, 1)>> }

Spheres == { Sphere(g[1], g[2], m) : g \in Geometries, m \in Materials }

Rays ==
    { Ray(VI(0, 5, 0), VI(0, -1, 0)), Ray(VI(0, 5, 0), VI(0, -2, 0)),
      Ray(VI(0, -5, 0), VI(0, 1, 0)), Ray(VI(0, 0, 0), VI(0, -1, 0)),
      Ray(VI(-5, 1, 0), VI(1, 0, 0)), Ray(VI(-5, 4, 0), VI(1, 0, 0)),
      Ray(VI(0, 4, 0), VI(1, 0, 0)), Ray(VI(0, 5, 0), VI(0, 1, 0)),
      Ray(VI(-5, 6, 0), VI(1, 0, 0)) }

\* (t_min, t_max) with t_min < t_max; (1/1000, INFINITY) is ray_colour's.
Intervals ==
    { <<Q(1, 1000), INFINITY>>, <<Zero, INFINITY>>, <<Q(4, 1), Q(6, 1)>>,
      <<Q(4, 1), INFINITY>>, <<Q(1, 1000), Q(4, 1)>>, <<Q(2, 1), Q(8, 1)>>,
      <<Q(5, 1), Q(6, 1)>> }

\* Points of the unit ball with components in [-1, 1), and f64s in [0, 1).
DrawVectors ==
    { V(Zero, Q(-1, 1), Zero), V(Zero, Q(1, 2), Zero), V(Q(-1, 1), Zero, Zero),
      V(Q(3, 5), Q(-4, 5), Zero) }
DrawScalars == { Zero, Q(1, 2) }

\* One scatter call draws either a vector (Lambertian, Metal) or an f64
\* (Dielectric); the part it does not draw stays at its default.
DrawsOf(vectors, scalars, m) ==
    IF m.kind = "Dielectric"
    THEN { [v |-> default, s |-> x] : x \in scalars }
    ELSE { [v |-> v, s |-> Zero] : v \in vectors }

(***************************************************************************)
(* Sphere::hit, then the hit material's scatter.                           *)
(***************************************************************************)
InitSurface ==
    /\ sf_pc = "ready"
    /\ sf_sphere \in Spheres
    /\ sf_ray \in { r \in Rays : HitExact(sf_sphere, r) }
    /\ \E i \in Intervals : sf_t_min = i[1] /\ sf_t_max = i[2]
    /\ sf_hit = None
    /\ sf_draw = NoDraw
    /\ sf_scatter = None
    /\ TraceIdle /\ CameraIdle /\ RenderIdle /\ BytesIdle

SphereHit ==
    /\ sf_pc = "ready"
    /\ sf_hit' = hit(sf_sphere, sf_ray, sf_t_min, sf_t_max)
    /\ sf_pc' = "hit"
    /\ UNCHANGED <<sf_sphere, sf_ray, sf_t_min, sf_t_max, sf_draw, sf_scatter>>
    /\ UNCHANGED <<tr_vars, cam_vars, rd_vars, by_vars>>

MaterialScatter ==
    /\ sf_pc = "hit"
    /\ sf_hit.some
    /\ \E draw \in DrawsOf(DrawVectors, DrawScalars, sf_hit.val.material) :
          /\ ScatterExact(sf_ray, sf_hit.val, draw)
          /\ sf_draw' = draw
          /\ sf_scatter' = scatter(sf_ray, sf_hit.val, draw)
    /\ sf_pc' = "scattered"
    /\ UNCHANGED <<sf_sphere, sf_ray, sf_t_min, sf_t_max, sf_hit>>
    /\ UNCHANGED <<tr_vars, cam_vars, rd_vars, by_vars>>

NextSurface == SphereHit \/ MaterialScatter

SpecSurface == InitSurface /\ [][NextSurface]_vars

(***************************************************************************)
(* ray_colour, one step per call and per return.                           *)
(***************************************************************************)
MaxDepth == 3
MaxSurfaces == 2

TraceSpheres ==
    { Sphere(VI(0, 0, 0), Q(5, 1), Metal(GOLD, Zero)),
      Sphere(VI(0, 0, 0), Q(5, 1), Lambertian(GREY)),
      Sphere(VI(-10, 4, 0), Q(1, 1), Lambertian(GREY)),
      Sphere(VI(0, 0, 0), Q(1, 1), Dielectric(Q(3, 2))) }

\* The scenes: every sequence of at most MaxSurfaces spheres.
Scenes == UNION { [1..n -> TraceSpheres] : n \in 0..MaxSurfaces }

TraceRays ==
    { Ray(VI(-7, 4, 0), VI(-1, 0, 0)), Ray(VI(0, 8, 0), VI(0, -1, 0)),
      Ray(VI(-8, 5, 0), VI(1, 0, 0)), Ray(VI(0, 0, 0), VI(0, -2, 0)),
      Ray(VI(-8, 6, 0), VI(1, 0, 0)) }

TraceVectors ==
    { V(Zero, Q(-1, 1), Zero), V(Q(-1, 1), Zero, Zero), V(Q(3, 5), Q(-4, 5), Zero) }
TraceDraws(m) == DrawsOf(TraceVectors, DrawScalars, m)

\* What one call of ray_colour did: its ray and depth, the closest hit (if
\* any), the draw of its scatter call and what scatter returned.
Call(r, d, h, draw, sc) == [ray |-> r, depth |-> d, hit |-> h, draw |-> draw, scatter |-> sc]

InitTrace ==
    /\ world \in Scenes
    /\ ray \in { r \in TraceRays : TraceExact(world, r) }
    /\ depth \in 0..MaxDepth
    /\ depth0 = depth
    /\ stack = <<>>
    /\ pc = "call"
    /\ result = None
    /\ path = <<>>
    /\ calls = 0 /\ hit_tests = 0 /\ scatter_calls = 0
    /\ terminal = "none"
    /\ SurfaceIdle /\ CameraIdle /\ RenderIdle /\ BytesIdle

\* depth == 0: max bounces, no colour.
BudgetExhausted ==
    /\ pc = "call"
    /\ depth = 0
    /\ result' = default
    /\ terminal' = "budget"
    /\ pc' = "ret"
    /\ calls' = calls + 1
    /\ path' = Append(path, Call(ray, depth, None, None, None))
    /\ UNCHANGED <<world, ray, depth, stack, depth0, hit_tests, scatter_calls>>
    /\ UNCHANGED <<sf_vars, cam_vars, rd_vars, by_vars>>

\* No surface is hit: the background gradient.
Miss ==
    /\ pc = "call"
    /\ depth # 0
    /\ \E h \in { closest_hit(world, ray) } :
          /\ ~h.some
          /\ result' = background(ray)
    /\ terminal' = "miss"
    /\ pc' = "ret"
    /\ calls' = calls + 1
    /\ hit_tests' = hit_tests + Len(world)
    /\ path' = Append(path, Call(ray, depth, None, None, None))
    /\ UNCHANGED <<world, ray, depth, stack, depth0, scatter_calls>>
    /\ UNCHANGED <<sf_vars, cam_vars, rd_vars, by_vars>>

\* The closest hit's material absorbs the ray: unwrap_or_default().
Absorbed ==
    /\ pc = "call"
    /\ depth # 0
    /\ \E h \in { closest_hit(world, ray) } :
          /\ h.some
          /\ \E draw \in TraceDraws(h.val.material) :
                /\ ScatterExact(ray, h.val, draw)
                /\ \E sc \in { scatter(ray, h.val, draw) } :
                      /\ ~sc.some
                      /\ path' = Append(path, Call(ray, depth, h, draw, sc))
    /\ result' = default
    /\ terminal' = "absorbed"
    /\ pc' = "ret"
    /\ calls' = calls + 1
    /\ hit_tests' = hit_tests + Len(world)
    /\ scatter_calls' = scatter_calls + 1
    /\ UNCHANGED <<world, ray, depth, stack, depth0>>
    /\ UNCHANGED <<sf_vars, cam_vars, rd_vars, by_vars>>

\* The closest hit's material scatters the ray: the recursive call, its
\* result still to be multiplied by the attenuation.
Bounce ==
    /\ pc = "call"
    /\ depth # 0
    /\ \E h \in { closest_hit(world, ray) } :
          /\ h.some
          /\ \E draw \in TraceDraws(h.val.material) :
                /\ ScatterExact(ray, h.val, draw)
                /\ \E sc \in { scatter(ray, h.val, draw) } :
                      /\ sc.some
                      /\ \E scattered \in { sc.val.ray } : TraceExact(world, scattered)
                      /\ path' = Append(path, Call(ray, depth, h, draw, sc))
                      /\ stack' = <<sc.val.attenuation>> \o stack
                      /\ ray' = sc.val.ray
    /\ depth' = next_depth(depth)
    /\ calls' = calls + 1
    /\ hit_tests' = hit_tests + Len(world)
    /\ scatter_calls' = scatter_calls + 1
    /\ UNCHANGED <<world, pc, result, depth0, terminal>>
    /\ UNCHANGED <<sf_vars, cam_vars, rd_vars, by_vars>>

\* A recursive call returns: attenuation * its colour.
Return ==
    /\ pc = "ret"
    /\ stack # <<>>
    /\ result' = attenuate(Head(stack), result)
    /\ stack' = Tail(stack)
    /\ UNCHANGED <<world, ray, depth, pc, depth0, path, calls, hit_tests,
                   scatter_calls, terminal>>
    /\ UNCHANGED <<sf_vars, cam_vars, rd_vars, by_vars>>

\* The top-level call returns.
Finish ==
    /\ pc = "ret"
    /\ stack = <<>>
    /\ pc' = "done"
    /\ UNCHANGED <<world, ray, depth, stack, result, depth0, path, calls, hit_tests,
                   scatter_calls, terminal>>
    /\ UNCHANGED <<sf_vars, cam_vars, rd_vars, by_vars>>

Next == BudgetExhausted \/ Miss \/ Absorbed \/ Bounce \/ Return \/ Finish

Spec == InitTrace /\ [][Next]_vars

(***************************************************************************)
(* Camera::new, then get_ray.                                              *)
(***************************************************************************)
CameraArgs ==
    { [look_from |-> lf, look_at |-> VI(0, 0, 0), up |-> VI(0, 1, 0),
       vertical_fov_degrees |-> 90, aspect_ratio |-> ar, aperture |-> ap,
       focus_distance |-> fd] :
        lf \in { VI(0, 0, 1), VI(3, 0, 4), VI(0, 0, -5) },
        ar \in { One, Q(3, 2) },
        ap \in { Zero, Q(1, 10), Two },
        fd \in { One, Q(10, 1) } }

ImagePlane == { Zero, Q(1, 2), One }

\* Points of the unit disk with x, y in [-1, 1) and z = 0.
DiskPoints ==
    { VI(0, 0, 0), VI(-1, 0, 0), V(Q(3, 5), Q(-4, 5), Zero), V(Zero, Q(1, 2), Zero) }

InitCamera ==
    /\ cam_pc = "new"
    /\ \E a \in CameraArgs :
          /\ cam_args = a
          /\ camera = Camera_new(a.look_from, a.look_at, a.up, a.vertical_fov_degrees,
                                 a.aspect_ratio, a.aperture, a.focus_distance)
    /\ cam_ray = None
    /\ SurfaceIdle /\ TraceIdle /\ RenderIdle /\ BytesIdle

GetRay ==
    /\ cam_pc = "new"
    /\ \E s \in ImagePlane, t \in ImagePlane, disk \in DiskPoints :
          /\ cam_ray' = [s |-> s, t |-> t, disk |-> disk,
                          ray |-> get_ray(camera, s, t, disk)]
    /\ cam_pc' = "ray"
    /\ UNCHANGED <<camera, cam_args>>
    /\ UNCHANGED <<sf_vars, tr_vars, rd_vars, by_vars>>

NextCamera == GetRay

SpecCamera == InitCamera /\ [][NextCamera]_vars

(***************************************************************************)
(* The row loop of main: for j in (0..image_height).rev(), the pixels of   *)
(* row j computed by parallel workers, collected and written.              *)
(***************************************************************************)
ImageWidth == 3
ImageHeight == 2
SamplesPerPixel == 2

SampleColours == { VI(0, 0, 0), VI(1, 1, 1) }

\* The sample colours whose average has a rational square root.
PixelSamples ==
    { ss \in [1..SamplesPerPixel -> SampleColours] :
        /\ QSqrtExact(average(ss).x)
        /\ QSqrtExact(average(ss).y)
        /\ QSqrtExact(average(ss).z) }

NoSlots == [i \in 0..(ImageWidth - 1) |-> None]

InitRender ==
    /\ rd_pc = "row"
    /\ j = ImageHeight - 1
    /\ slots = NoSlots
    /\ finished = <<>>
    /\ out = <<>>
    /\ SurfaceIdle /\ TraceIdle /\ CameraIdle /\ BytesIdle

\* The worker of column i computes its pixel; the workers run in any order.
PixelWorker(i) ==
    /\ rd_pc = "row"
    /\ ~slots[i].some
    /\ \E samples \in PixelSamples :
          slots' = [slots EXCEPT ![i] = Some([row |-> j, col |-> i, rgb |-> pixel(samples)])]
    /\ finished' = Append(finished, i)
    /\ UNCHANGED <<rd_pc, j, out>>
    /\ UNCHANGED <<sf_vars, tr_vars, cam_vars, by_vars>>

\* collect() returns once every worker has finished; the row is written.
WriteRow ==
    /\ rd_pc = "row"
    /\ \A i \in 0..(ImageWidth - 1) : slots[i].some
    /\ out' = out \o collect([slots |-> slots, finished |-> finished])
    /\ rd_pc' = "written"
    /\ UNCHANGED <<j, slots, finished>>
    /\ UNCHANGED <<sf_vars, tr_vars, cam_vars, by_vars>>

\* The next iteration of the loop, or its end after row 0.
NextRow ==
    /\ rd_pc = "written"
    /\ j # 0
    /\ j' = j - 1
    /\ slots' = NoSlots
    /\ finished' = <<>>
    /\ rd_pc' = "row"
    /\ UNCHANGED out
    /\ UNCHANGED <<sf_vars, tr_vars, cam_vars, by_vars>>

LoopEnd ==
    /\ rd_pc = "written"
    /\ j = 0
    /\ rd_pc' = "done"
    /\ UNCHANGED <<j, slots, finished, out>>
    /\ UNCHANGED <<sf_vars, tr_vars, cam_vars, by_vars>>

NextRender ==
    \/ \E i \in 0..(ImageWidth - 1) : PixelWorker(i)
    \/ WriteRow
    \/ NextRow
    \/ LoopEnd

SpecRender == InitRender /\ [][NextRender]_vars

(***************************************************************************)
(* One as_bytes call.                                                      *)
(***************************************************************************)
Channels ==
    { Q(-1, 2), Zero, Q(1, 512), Q(1, 256), Q(1, 2), Q(509, 512), Q(998, 1000),
      Q(999, 1000), One, Q(3, 2) }

InitBytes ==
    /\ by_pc = "colour"
    /\ by_colour \in { V(x, y, z) : x \in Channels, y \in Channels, z \in Channels }
    /\ by_bytes = <<>>
    /\ SurfaceIdle /\ TraceIdle /\ CameraIdle /\ RenderIdle

AsBytes ==
    /\ by_pc = "colour"
    /\ by_bytes' = as_bytes(by_colour)
    /\ by_pc' = "bytes"
    /\ UNCHANGED by_colour
    /\ UNCHANGED <<sf_vars, tr_vars, cam_vars, rd_vars>>

NextBytes == AsBytes

SpecBytes == InitBytes /\ [][NextBytes]_vars

(***************************************************************************)
(* Claims about Sphere::hit and scatter (SpecSurface).                     *)
(***************************************************************************)
SurfaceHitDone == sf_pc \in {"hit", "scattered"}

\* The two roots as the claim writes them: (-half_b -+ d) / a.
ClaimRoot(sign) ==
    LET oc == sub(sf_ray.origin, sf_sphere.centre)
        a == length_squared(sf_ray.direction)
        half_b == dot(sf_ray.direction, oc)
        d == QSqrt(discriminant(sf_sphere, sf_ray))
    IN  QDiv(QAdd(QNeg(half_b), QMul(Q(sign, 1), d)), a)

InOpen(r)   == QLt(sf_t_min, r) /\ QLt(r, sf_t_max)
InClosed(r) == QLe(sf_t_min, r) /\ QLe(r, sf_t_max)

\* C1 as stated: hit returns None iff the discriminant is negative or both
\* roots fall outside the OPEN interval (t_min, t_max); a hit's t is the
\* smaller root if it lies in the open interval, else the larger; a root
\* equal to t_min or t_max is never reported.
C1_OpenInterval ==
    SurfaceHitDone =>
        LET neg_disc == QLt(discriminant(sf_sphere, sf_ray), Zero)
        IN  /\ (sf_hit = None) <=>
                  (neg_disc \/ (~InOpen(ClaimRoot(-1)) /\ ~InOpen(ClaimRoot(1))))
            /\ sf_hit.some =>
                  /\ sf_hit.val.t =
                        IF InOpen(ClaimRoot(-1)) THEN ClaimRoot(-1) ELSE ClaimRoot(1)
                  /\ sf_hit.val.t # sf_t_min
                  /\ sf_hit.val.t # sf_t_max

\* C1 amended: the same with the CLOSED interval [t_min, t_max]: hit returns
\* None iff the discriminant is negative or both roots fall outside
\* [t_min, t_max], and a hit's t is the smaller root if it lies in
\* [t_min, t_max], else the larger (a root equal to a bound is reported).
C1_ClosedInterval ==
    SurfaceHitDone =>
        LET neg_disc == QLt(discriminant(sf_sphere, sf_ray), Zero)
        IN  /\ (sf_hit = None) <=>
                  (neg_disc \/ (~InClosed(ClaimRoot(-1)) /\ ~InClosed(ClaimRoot(1))))
            /\ sf_hit.some =>
                  /\ sf_hit.val.t =
                        IF InClosed(ClaimRoot(-1)) THEN ClaimRoot(-1) ELSE ClaimRoot(1)
                  /\ InClosed(sf_hit.val.t)

\* C1 witness: a hit reported at a root equal to t_min, the larger root
\* lying in the interval too.
C1_Witness ==
    /\ SurfaceHitDone
    /\ sf_hit.some
    /\ sf_hit.val.t = sf_t_min
    /\ ClaimRoot(1) # ClaimRoot(-1)
    /\ InClosed(ClaimRoot(1))

\* C2: every hit record's normal has dot(normal, ray.direction) <= 0;
\* hit_from_inside is true exactly when the raw normal (point - centre) /
\* radius has a strictly positive dot product with the direction, and then
\* the stored normal is its negation; otherwise the raw normal is stored.
C2_NormalAgainstRay ==
    (SurfaceHitDone /\ sf_hit.some) =>
        LET hr == sf_hit.val
            raw == div_f64(sub(hr.point, sf_sphere.centre), sf_sphere.radius)
        IN  /\ QLe(dot(hr.normal, sf_ray.direction), Zero)
            /\ hr.hit_from_inside <=> QGt(dot(raw, sf_ray.direction), Zero)
            /\ hr.normal = IF hr.hit_from_inside THEN neg(raw) ELSE raw

\* C2 witness: a hit from inside the sphere, its normal flipped.
C2_Witness ==
    /\ SurfaceHitDone
    /\ sf_hit.some
    /\ sf_hit.val.hit_from_inside
    /\ QLt(dot(sf_hit.val.normal, sf_ray.direction), Zero)

\* C6: Lambertian scatter always returns a ray, with attenuation = albedo;
\* Metal scatter returns None iff dot(reflected + fuzziness * v, normal) <= 0
\* and otherwise attenuation = albedo; Dielectric scatter always returns a
\* ray with attenuation (1, 1, 1).  So only Metal absorbs.
C6_Absorption ==
    (sf_pc = "scattered") =>
        LET hr == sf_hit.val
            m == hr.material
            perturbed ==
                add(reflect_across(unit(sf_ray.direction), hr.normal),
                    mul_f64(sf_draw.v, m.fuzziness))
        IN  /\ m.kind = "Lambertian" =>
                  sf_scatter.some /\ sf_scatter.val.attenuation = m.albedo
            /\ m.kind = "Metal" =>
                  /\ (sf_scatter = None) <=> QLe(dot(perturbed, hr.normal), Zero)
                  /\ sf_scatter.some => sf_scatter.val.attenuation = m.albedo
            /\ m.kind = "Dielectric" =>
                  sf_scatter.some /\ sf_scatter.val.attenuation = VI(1, 1, 1)
            /\ (sf_scatter = None) => m.kind = "Metal"

\* C6 witness: a Metal scatter absorbed with the perturbed direction
\* exactly perpendicular to the normal (dot = 0).
C6_Witness ==
    /\ sf_pc = "scattered"
    /\ sf_hit.val.material.kind = "Metal"
    /\ sf_scatter = None
    /\ dot(add(reflect_across(unit(sf_ray.direction), sf_hit.val.normal),
               mul_f64(sf_draw.v, sf_hit.val.material.fuzziness)),
           sf_hit.val.normal) = Zero

(***************************************************************************)
(* Claims about ray_colour (Spec).                                         *)
(***************************************************************************)
Returned == pc \in {"ret", "done"}
LastCall == path[Len(path)]
BLACK == VI(0, 0, 0)

\* The draws of the scatter calls, in call order.
PathDraws == [k \in 1..scatter_calls |-> path[k].draw]

\* The scene in every order.
Reorderings(w) ==
    { [i \in 1..Len(w) |-> w[f[i]]] : f \in Permutations(1..Len(w)) }

\* Two surfaces are hit at the minimum t with different hit records.
Tie(w, r) ==
    LET hits == filter_map_hit(w, r)
    IN  \E a, b \in 1..Len(hits) :
            /\ hits[a] # hits[b]
            /\ hits[a].t = hits[b].t
            /\ \A c \in 1..Len(hits) : QLe(hits[a].t, hits[c].t)
TieOnPath == \E k \in 1..Len(path) : path[k].depth # 0 /\ Tie(world, path[k].ray)

\* Every call used a hit of minimum t among the surfaces hit in
\* (0.001, +infinity).
UsesMinimumT ==
    \A k \in 1..Len(path) :
        path[k].hit.some =>
            \A i \in 1..Len(world) :
                LET h == hit(world[i], path[k].ray, T_MIN, INFINITY)
                IN  h.some => QLe(path[k].hit.val.t, h.val.t)

\* With the same ray and the same draws, the scene in order w gives the
\* same first hit material and the same colour.
SameInOrder(w) ==
    LET r == ray_colour(path[1].ray, depth0, w, PathDraws)
    IN  r.ok =>
          /\ r.colour = result
          /\ closest_hit(w, path[1].ray) = path[1].hit

\* C3 as stated: for depth > 0 ray_colour uses the hit of minimum t, and
\* for every permutation of the scene the same ray and draws give the same
\* hit material and colour, ties at equal t included.
C3_OrderIndependent ==
    (pc = "done" /\ depth0 # 0) =>
        /\ UsesMinimumT
        /\ \A w \in Reorderings(world) : SameInOrder(w)

\* C3 amended: ray_colour uses the hit of minimum t, and for every
\* permutation of the scene the same ray and draws give the same hit
\* material and colour PROVIDED no call on the path has two surfaces hit at
\* the minimum t with different hit records; on such a tie the surface that
\* comes first in the scene order is used.
C3_OrderIndependentUnlessTie ==
    (pc = "done" /\ depth0 # 0) =>
        /\ UsesMinimumT
        /\ ~TieOnPath =>
              \A w \in Reorderings(world) :
                  LET r == ray_colour(path[1].ray, depth0, w, PathDraws)
                  IN  /\ r.ok
                      /\ r.colour = result
                      /\ closest_hit(w, path[1].ray) = path[1].hit
        /\ \A k \in 1..Len(path) :
              path[k].hit.some =>
                  LET hits == filter_map_hit(world, path[k].ray)
                      first == CHOOSE a \in 1..Len(hits) :
                                 \A b \in 1..Len(hits) :
                                     \/ QLt(hits[a].t, hits[b].t)
                                     \/ (hits[a].t = hits[b].t /\ a <= b)
                  IN  path[k].hit.val = hits[first]

\* C3 witness: two surfaces with different materials are hit at different
\* t, the closer one second in the scene, and the colour is returned.
C3_Witness ==
    /\ pc = "done"
    /\ depth0 # 0
    /\ Len(world) = 2
    /\ ~TieOnPath
    /\ world[1].material # world[2].material
    /\ hit(world[1], path[1].ray, T_MIN, INFINITY).some
    /\ path[1].hit = hit(world[2], path[1].ray, T_MIN, INFINITY)
    /\ QLt(path[1].hit.val.t, hit(world[1], path[1].ray, T_MIN, INFINITY).val.t)

\* C4: ray_colour terminates within the bounce budget: call k is made with
\* depth0 - (k - 1), so scatter is invoked at most depth0 times and at most
\* depth0 recursive calls are nested; the call reached with depth 0 returns
\* the zero vector and intersects no surface (hit is called Len(world)
\* times by every other call and never by that one); every step brings the
\* return of the top-level call nearer (at most 2 * depth0 + 2 steps), and
\* until it has returned a step is possible.
C4_WithinBudget ==
    (pc # "idle") =>
        /\ scatter_calls <= depth0
        /\ Len(stack) <= depth0
        /\ calls <= depth0 + 1
        /\ calls = Len(path)
        /\ \A k \in 1..Len(path) : path[k].depth = depth0 - (k - 1)
        /\ pc = "call" => depth = depth0 - calls
        /\ hit_tests = Len(world) * (calls - (IF terminal = "budget" THEN 1 ELSE 0))
        /\ terminal = "budget" =>
              /\ LastCall.depth = 0
              /\ LastCall.hit = None
              /\ result = BLACK
        /\ (Returned /\ LastCall.depth = 0) => terminal = "budget"
        /\ pc = "call" =>
              \/ depth = 0
              \/ ~closest_hit(world, ray).some
              \/ \E draw \in TraceDraws(closest_hit(world, ray).val.material) :
                    /\ ScatterExact(ray, closest_hit(world, ray).val, draw)
                    /\ LET sc == scatter(ray, closest_hit(world, ray).val, draw)
                       IN  sc.some => TraceExact(world, sc.val.ray)

\* What is left to do: two steps per remaining level of recursion, one per
\* pending multiplication, and the return.
StepsLeft ==
    CASE pc = "call" -> 2 * depth + Len(stack) + 2
      [] pc = "ret" -> Len(stack) + 1
      [] OTHER -> 0

C4_BounceBudget == []C4_WithinBudget /\ [][StepsLeft' < StepsLeft]_vars

\* C4 witness: a call that used its whole budget: depth0 scatters, then the
\* call with depth 0, in a scene with surfaces.
C4_Witness ==
    /\ pc = "done"
    /\ depth0 = MaxDepth
    /\ scatter_calls = depth0
    /\ terminal = "budget"
    /\ world # <<>>
    /\ hit_tests = Len(world) * depth0

\* The background as the claim writes it.
ClaimBackground(r) ==
    LET t == QMul(Q(1, 2), QAdd(QDiv(r.direction.y, length(r.direction)), One))
    IN  V(QAdd(QSub(One, t), QMul(Q(1, 2), t)),
          QAdd(QSub(One, t), QMul(Q(7, 10), t)),
          QAdd(QSub(One, t), t))

\* C5: a call with depth > 0 whose ray hits no surface returns
\* WHITE * (1 - t) + LIGHT_BLUE * t with t = 0.5 * (unit(direction).y + 1),
\* a point of the segment from (1, 1, 1) to (0.5, 0.7, 1), never black, and
\* calls no scatter and does not recurse; with no surface in the scene every
\* call with depth > 0 is such a call.
C5_MissIsBackground ==
    /\ (pc = "ret" /\ terminal = "miss" /\ Len(stack) = Len(path) - 1) =>
          /\ LastCall.depth # 0
          /\ \A i \in 1..Len(world) :
                ~hit(world[i], LastCall.ray, T_MIN, INFINITY).some
          /\ result = ClaimBackground(LastCall.ray)
          /\ result # BLACK
          /\ QLe(Q(1, 2), result.x) /\ QLe(result.x, One)
          /\ QLe(Q(7, 10), result.y) /\ QLe(result.y, One)
          /\ result.z = One
          /\ LastCall.scatter = None /\ LastCall.draw = None
          /\ scatter_calls = Len(path) - 1
    /\ (Returned /\ world = <<>> /\ depth0 # 0) =>
          terminal = "miss" /\ calls = 1 /\ scatter_calls = 0

\* C5 witness: a ray pointing down (t = 0, the white end) in a scene with
\* no surface, at the largest depth.
C5_Witness ==
    /\ pc = "done"
    /\ world = <<>>
    /\ depth0 = MaxDepth
    /\ terminal = "miss"
    /\ result = WHITE

\* The colour the k-th call returns according to the claim: the terminal
\* event's colour for the last call, otherwise the attenuation of its
\* scatter times the colour of the next call.
TerminalColour ==
    CASE terminal = "miss" -> ClaimBackground(LastCall.ray)
      [] terminal = "absorbed" -> BLACK
      [] terminal = "budget" -> BLACK

RECURSIVE PathColour(_)
PathColour(k) ==
    IF k = Len(path) THEN TerminalColour
    ELSE LET a == path[k].scatter.val.attenuation
             c == PathColour(k + 1)
         IN  V(QMul(a.x, c.x), QMul(a.y, c.y), QMul(a.z, c.z))

\* C9: the colour returned for depth > 0 is the component-wise product of
\* the attenuations of the scatters along the path and the colour of the
\* single terminal event, which is exactly one of miss (background),
\* absorption (black) and budget exhausted (black); so the result is black
\* whenever the path ends in absorption or exhaustion.
C9_PathProduct ==
    (pc = "done" /\ depth0 # 0) =>
        /\ terminal \in {"miss", "absorbed", "budget"}
        /\ terminal = "budget" <=> LastCall.depth = 0
        /\ terminal = "miss" <=> (LastCall.depth # 0 /\ LastCall.hit = None)
        /\ terminal = "absorbed" <=> (LastCall.hit # None /\ LastCall.scatter = None)
        /\ \A k \in 1..(Len(path) - 1) : path[k].hit.some /\ path[k].scatter.some
        /\ result = PathColour(1)
        /\ terminal \in {"absorbed", "budget"} => result = BLACK

\* C9 witness: two scatters with attenuations other than white, then a
\* miss: the background times both attenuations.
C9_Witness ==
    /\ pc = "done"
    /\ Len(path) = 3
    /\ terminal = "miss"
    /\ path[1].scatter.val.attenuation # WHITE
    /\ path[2].scatter.val.attenuation # WHITE
    /\ result # BLACK
    /\ result # ClaimBackground(LastCall.ray)

(***************************************************************************)
(* Claims about the row loop of main (SpecRender).                         *)
(***************************************************************************)
\* The position of pixel (row, col) in a top-row-first, row-major image.
RowMajor(k) == [row |-> (ImageHeight - 1) - ((k - 1) \div ImageWidth),
                col |-> (k - 1) % ImageWidth]

RowsWritten == IF rd_pc = "row" THEN (ImageHeight - 1) - j ELSE ImageHeight - j

\* C7: the pixels written to the output are in row-major order with the
\* top row (j = image_height - 1) first, whatever order the workers of a
\* row finished in: only whole rows are written, the k-th pixel written is
\* the one a worker computed for row (height - 1) - (k - 1) div width and
\* column (k - 1) mod width, and when the loop has ended every pixel of the
\* image has been written exactly once.
C7_RowMajorOutput ==
    /\ rd_pc # "idle" =>
          /\ Len(out) = ImageWidth * RowsWritten
          /\ \A k \in 1..Len(out) :
                /\ out[k].row = RowMajor(k).row
                /\ out[k].col = RowMajor(k).col
          /\ \A k \in 1..Len(out), l \in 1..Len(out) :
                (out[k].row = out[l].row /\ out[k].col = out[l].col) => k = l
    /\ rd_pc = "done" => Len(out) = ImageWidth * ImageHeight

\* The loop has ended, and the workers of the last row finished in the
\* reverse of the column order.
C7_Witness ==
    /\ rd_pc = "done"
    /\ Len(out) = ImageWidth * ImageHeight
    /\ finished = [k \in 1..ImageWidth |-> ImageWidth - k]
    /\ out[1].row = ImageHeight - 1
    /\ out[Len(out)].col = ImageWidth - 1

(***************************************************************************)
(* Claims about Camera::get_ray (SpecCamera).                              *)
(***************************************************************************)
\* The offset of the claim: u * rd.x + v * rd.y.
ClaimOffset(cam, rd) == add(mul_f64(cam.u, rd.x), mul_f64(cam.v, rd.y))

\* C8: the ray get_ray returns starts at origin + offset with
\* offset = u * rd.x + v * rd.y, rd the disk point scaled by the lens
\* radius, and points from there to the point (s, t) of the focal plane;
\* with aperture 0 it starts exactly at look_from.
C8_LensOffset ==
    cam_pc = "ray" =>
        LET rd == mul_f64(cam_ray.disk, camera.lens_radius)
            target == add(add(camera.lower_left_corner,
                              mul_f64(camera.horizontal, cam_ray.s)),
                          mul_f64(camera.vertical, cam_ray.t))
        IN  /\ cam_ray.ray.origin = add(camera.origin, ClaimOffset(camera, rd))
            /\ cam_ray.ray.direction = sub(target, cam_ray.ray.origin)
            /\ cam_args.aperture = Zero => cam_ray.ray.origin = cam_args.look_from

(***************************************************************************)
(* Claims about Vec3::as_bytes (SpecBytes).                                *)
(***************************************************************************)
Channel(i) == IF i = 1 THEN by_colour.x ELSE IF i = 2 THEN by_colour.y ELSE by_colour.z

\* C10: every channel c of a colour becomes the byte
\* trunc(clamp(c, 0, 0.999) * 256): a byte in 0..255, 0 for c <= 0, 255 for
\* c >= 0.999, and otherwise the b with b <= 256 c < b + 1; a channel's
\* byte depends on that channel alone and never decreases as the channel
\* increases.
C10_ChannelToByte ==
    by_pc = "bytes" =>
        /\ Len(by_bytes) = 3
        /\ \A i \in 1..3 :
              LET c == Channel(i)
                  b == by_bytes[i]
              IN  /\ b \in 0..255
                  /\ QLe(c, Zero) => b = 0
                  /\ QLe(Q(999, 1000), c) => b = 255
                  /\ (QLe(Zero, c) /\ QLe(c, Q(999, 1000))) =>
                        /\ QLe(Q(b, 1), QMul(Q(256, 1), c))
                        /\ QLt(QMul(Q(256, 1), c), Q(b + 1, 1))
        /\ \A i \in 1..3, k \in 1..3 :
              /\ QLe(Channel(i), Channel(k)) => by_bytes[i] <= by_bytes[k]
              /\ Channel(i) = Channel(k) => by_bytes[i] = by_bytes[k]

\* A colour with a negative channel, a channel above 1 and a channel
\* strictly inside the range has been converted.
C10_Witness ==
    /\ by_pc = "bytes"
    /\ by_colour = V(Q(-1, 2), Q(509, 512), Q(3, 2))
    /\ by_bytes = <<0, 254, 255>>

====
